---- MODULE Spec2Model ----
(***************************************************************************)
(* A model of the folker test-execution engine: the save / log / assertion *)
(* steps of a stage (folker/model/entity.py), template enrichment, the     *)
(* per-test runner and the suite scheduler (folker/folker.py, folker.py).  *)
(*                                                                         *)
(* Python values are tagged records [t |-> <type>, v |-> <payload>]; a     *)
(* dict payload is a function from keys to tagged values.  A dotted        *)
(* variable path "a.b.c" is written as the sequence its split('.') gives,  *)
(* <<"a", "b", "c">>.                                                      *)
(***************************************************************************)
EXTENDS Integers, Sequences, FiniteSets, TLC

VARIABLES
    saveTc,      \* SpecSave: the test_context dict the save step writes into
    saveSc,      \* SpecSave: the stage_context of the invocation
    saveLast,    \* SpecSave: the last (variable, saving) entry applied and its outcome
    saveCount,   \* SpecSave: number of save steps run so far
    asIn,        \* SpecAssert: the assertions, contexts and runtime of one call
    asOut,       \* SpecAssert: the outcome of StageAssertions.execute, once it ran
    enStage,     \* SpecEnrich: the stage being enriched
    enTemplate,  \* SpecEnrich: the template it is enriched with
    enPrev,      \* SpecEnrich: the stage as it was before the last Stage.enrich
    enCount,     \* SpecEnrich: number of Stage.enrich calls made, -1 once one raised
    run,         \* SpecTest: the execution of one test by Test.execute
    tests,       \* Spec: the loaded tests, in declaration order
    status,      \* Spec: per test "idle", "running", "passed" or "failed"
    phase,       \* Spec: where run() is: "parallel", "sequential", "tally", "done"
    seqLists,    \* Spec: success_tests and fail_tests of the sequential executor
    executed,    \* Spec: run()'s count of executed tests
    success,     \* Spec: run()'s list of the names of the tests that passed
    failures,    \* Spec: run()'s list of the names of the tests that failed
    raised,      \* Spec: <<names>> once TestSuiteResultException(names) was raised
    runtime,     \* whether the runtime holds equal ints above SmallIntMax as distinct objects
    fileAction   \* SpecFile: a FileStageAction, from its arguments to its validation

saveVars == <<saveTc, saveSc, saveLast, saveCount>>

assertVars == <<asIn, asOut>>

enrichVars == <<enStage, enTemplate, enPrev, enCount>>

testVars == <<run, runtime>>

suiteVars == <<tests, status, phase, seqLists, executed, success, failures, raised>>

fileVars == <<fileAction>>

vars == <<saveTc, saveSc, saveLast, saveCount, asIn, asOut,
          enStage, enTemplate, enPrev, enCount, run, runtime,
          tests, status, phase, seqLists, executed, success, failures, raised,
          fileAction>>

\* ------------------------------------------------------------------ values

IntV(n) == [t |-> "int", v |-> n]
BoolV(b) == [t |-> "bool", v |-> b]
StrV(s) == [t |-> "str", v |-> s]
DictV(d) == [t |-> "dict", v |-> d]

EmptyDict == <<>>

IsDict(x) == x.t = "dict"

\* d with d[k] set to x (Python: d[k] = x).
DictSet(d, k, x) == [j \in DOMAIN d \cup {k} |-> IF j = k THEN x ELSE d[j]]

\* d.get(k, default)
DictGet(d, k, default) == IF k \in DOMAIN d THEN d[k] ELSE default


\* ------------------------------------------------------- variable resolver

\* Expression and template texts.  The text is kept as its parse:
\*   "int"   the literal n                      "sum"   "n + n"
\*   "true"  "True"                             "false" "False"
\*   "ref"   "${var}"                           "eq"    "${var} == n"
\*   "tmpl"  "${var} and some words" (a text, no expression)
\*   "junk"  a text that does not parse
Expr(k, var, n) == [k |-> k, var |-> var, n |-> n]

ErrorV(kind) == [t |-> "error", v |-> kind]

HasReference(e) == e.k \in {"ref", "eq", "tmpl"}

\* Lookup of one variable: the stage context first, then the test context.
Lookup(test_context, stage_context, var) ==
    IF var \in DOMAIN stage_context THEN stage_context[var]
    ELSE IF var \in DOMAIN test_context THEN test_context[var]
    ELSE ErrorV("undefined")

\* map_variables followed by eval: the value of the expression, or an error
\* value when the evaluation raises.
Evaluate(test_context, stage_context, e) ==
    CASE e.k = "int" -> IntV(e.n)
      [] e.k = "sum" -> IntV(e.n + e.n)
      [] e.k = "true" -> BoolV(TRUE)
      [] e.k = "false" -> BoolV(FALSE)
      [] e.k = "ref" -> Lookup(test_context, stage_context, e.var)
      [] e.k = "eq" ->
            LET x == Lookup(test_context, stage_context, e.var)
            IN  IF x.t = "error" THEN x ELSE BoolV(x = IntV(e.n))
      [] OTHER -> ErrorV("syntax")

\* replace_variables: the text with its reference, if any, replaced by the
\* value found, or left as a visible placeholder; it never raises.
ReplaceVariables(test_context, stage_context, e) ==
    StrV([src |-> e,
          sub |-> IF HasReference(e)
                  THEN Lookup(test_context, stage_context, e.var)
                  ELSE ErrorV("noref")])

\* ------------------------------------------------------------ StageSave

\* The nested value {c2: {c3: ... {cn: value}}} built for children c2..cn.
RECURSIVE NestedValue(_, _)
NestedValue(children, value) ==
    IF Len(children) = 0 THEN value
    ELSE DictV(DictSet(EmptyDict, Head(children), NestedValue(Tail(children), value)))

\* _merge_dictionaries on two dicts: every key of new_values is merged into
\* stable when both sides hold a dict, and overwrites stable otherwise.
RECURSIVE MergeDicts(_, _)
MergeDicts(stable, new_values) ==
    IF DOMAIN new_values = {} THEN stable
    ELSE [k \in DOMAIN stable \cup DOMAIN new_values |->
            IF k \notin DOMAIN new_values THEN stable[k]
            ELSE IF k \in DOMAIN stable /\ IsDict(stable[k]) /\ IsDict(new_values[k])
                 THEN DictV(MergeDicts(stable[k].v, new_values[k].v))
                 ELSE new_values[k]]

\* _merge_dictionaries as _resolve_variable calls it: stable is whatever the
\* test context holds at the root.  `k in stable` / `stable[k] = ...` raise
\* TypeError when stable is not a dict.
MergeDictionaries(stable, new_values) ==
    IF IsDict(stable) THEN DictV(MergeDicts(stable.v, new_values.v))
    ELSE ErrorV("TypeError")

\* _resolve_variable: [tc |-> the test context after the write, err |-> kind]
ResolveVariable(test_context, variable, value) ==
    IF Len(variable) = 1
    THEN [tc |-> DictSet(test_context, variable[1], value), err |-> "none"]
    ELSE LET variable_root == variable[1]
             variable_value == NestedValue(Tail(variable), value)
             merged == MergeDictionaries(
                           DictGet(test_context, variable_root, DictV(EmptyDict)),
                           variable_value)
         IN  IF merged.t = "error"
             THEN [tc |-> test_context, err |-> merged.v]
             ELSE [tc |-> DictSet(test_context, variable_root, merged), err |-> "none"]

\* The value one save entry writes: the evaluated expression, or, when the
\* evaluation raises, the text resolved against the stage context alone.
SavingValue(test_context, stage_context, saving) ==
    LET r == Evaluate(test_context, stage_context, saving)
    IN  IF r.t = "error"
        THEN ReplaceVariables(EmptyDict, stage_context, saving)
        ELSE r

\* One iteration of the loop of StageSave.execute; entry = <<variable, saving>>.
SaveEntry(test_context, stage_context, entry) ==
    ResolveVariable(test_context, entry[1],
                    SavingValue(test_context, stage_context, entry[2]))

\* StageSave.execute: the entries in insertion order; a raise leaves the
\* writes of the earlier entries in place.
RECURSIVE StageSaveExecute(_, _, _)
StageSaveExecute(test_context, stage_context, save) ==
    IF Len(save) = 0 THEN [tc |-> test_context, err |-> "none"]
    ELSE LET r == SaveEntry(test_context, stage_context, Head(save))
         IN  IF r.err # "none" THEN r
             ELSE StageSaveExecute(r.tc, stage_context, Tail(save))


\* ------------------------------------------------------ StageAssertions

\* The largest int the runtime keeps as one shared object: `a is b` on two
\* equal ints computed apart is True up to it.  Above it the result is the
\* runtime's choice: two objects under CPython, one value elsewhere.
SmallIntMax == 256

\* `a is not b` on two int counters computed apart; distinct tells whether
\* the runtime holds equal large ints as distinct objects.
IntIsNot(a, b, distinct) == a # b \/ (a > SmallIntMax /\ distinct)

\* _assert_individual without the isinstance check: a non-boolean result is
\* taken by its truth value.
AssertIndividualUntyped(test_context, stage_context, assertion) ==
    LET result == Evaluate(test_context, stage_context, assertion)
    IN  IF result.t = "error" THEN [err |-> "Unresolvable", result |-> FALSE]
        ELSE [err |-> "none", result |-> IF result.t = "bool" THEN result.v ELSE TRUE]

\* _assert_individual: the error it raises, or the boolean it returns.
AssertIndividual(test_context, stage_context, assertion) ==
    LET result == Evaluate(test_context, stage_context, assertion)
    IN  IF result.t = "error" THEN [err |-> "Unresolvable", result |-> FALSE]
        ELSE IF result.t # "bool" THEN [err |-> "Malformed", result |-> FALSE]
        ELSE [err |-> "none", result |-> result.v]

\* _wrap_up_test: the error it raises, if any.
WrapUpTest(executedCount, successCount, failed, distinct) ==
    IF IntIsNot(successCount, executedCount, distinct) THEN "TestFail" ELSE "none"

\* The position of the first assertion at which _assert_individual raises,
\* 0 when it raises at none: the loop of StageAssertions.execute stops there.
FirstRaise(assertions, test_context, stage_context) ==
    LET bad == {i \in 1..Len(assertions) :
                   AssertIndividual(test_context, stage_context, assertions[i]).err # "none"}
    IN  IF bad = {} THEN 0 ELSE CHOOSE i \in bad : \A j \in bad : i <= j

\* A loop that evaluates every assertion before it raises, and reports the
\* false ones first.
AssertLoopCollects(assertions, test_context, stage_context, distinct) ==
    LET stop == FirstRaise(assertions, test_context, stage_context)
        Passes(a) == AssertIndividual(test_context, stage_context, a).result
        Fails(a) == AssertIndividual(test_context, stage_context, a).err = "none" /\ ~Passes(a)
        failed == SelectSeq(assertions, Fails)
    IN  IF failed # <<>>
        THEN [err |-> "TestFail", carries |-> failed, evaluated |-> assertions]
        ELSE IF stop # 0
        THEN [err |-> AssertIndividual(test_context, stage_context, assertions[stop]).err,
              carries |-> <<assertions[stop]>>,
              evaluated |-> assertions]
        ELSE [err |-> "none", carries |-> <<>>, evaluated |-> assertions]

\* The loop of StageAssertions.execute, then the wrap-up.  evaluated lists
\* the assertions handed to _assert_individual, in order.
AssertLoop(assertions, test_context, stage_context, distinct) ==
    LET stop == FirstRaise(assertions, test_context, stage_context)
        Passes(a) == AssertIndividual(test_context, stage_context, a).result
        Fails(a) == ~Passes(a)
        executedCount == Len(assertions)
        successCount == Len(SelectSeq(assertions, Passes))
        failed == SelectSeq(assertions, Fails)
    IN  IF stop # 0
        THEN [err |-> AssertIndividual(test_context, stage_context, assertions[stop]).err,
              carries |-> <<assertions[stop]>>,
              evaluated |-> SubSeq(assertions, 1, stop)]
        ELSE [err |-> WrapUpTest(executedCount, successCount, failed, distinct),
              carries |-> failed,
              evaluated |-> assertions]

\* StageAssertions.execute: err is the error raised ("none": it returned),
\* carries the assertion texts the error holds, evaluated the assertions evaluated.
StageAssertionsExecute(assertions, test_context, stage_context, distinct) ==
    IF Len(assertions) = 0
    THEN [err |-> "none", carries |-> <<>>, evaluated |-> <<>>]
    ELSE AssertLoop(assertions, test_context, stage_context, distinct)

\* ------------------------------------------------------------ Stage, enrich

None == "<None>"

\* A Python dict whose insertion order matters (foreach, save) is kept as the
\* sequence of its <<key, value>> items.
Keys(items) == {items[i][1] : i \in 1..Len(items)}

ItemValue(items, key) == items[CHOOSE i \in 1..Len(items) : items[i][1] = key][2]

\* A merge that appends b's items to a's, whether or not a has the key.
DictUnionAppend(a, b) == a \o b

\* {**a, **b}: the keys of a in a's order, holding b's value where b has the
\* key, then the keys only b has, in b's order.
DictUnion(a, b) ==
    LET HasNewKey(item) == item[1] \notin Keys(a)
    IN  [i \in 1..Len(a) |->
            IF a[i][1] \in Keys(b) THEN <<a[i][1], ItemValue(b, a[i][1])>> ELSE a[i]]
        \o SelectSeq(b, HasNewKey)

\* An action of a stage, or the absence of one (present = FALSE): its variant
\* and its two optional attributes.
Action(kind, method, file) == [present |-> TRUE, kind |-> kind, method |-> method, file |-> file]

NoAction == [present |-> FALSE, kind |-> None, method |-> None, file |-> None]

\* Action._set_attribute_if_missing
SetAttributeIfMissing(own, template_value) == IF own = None THEN template_value ELSE own

\* Action.enrich of a variant: every attribute missing is taken from the
\* template's action; reading an attribute of an absent template action raises.
ActionEnrichRaises(action, template) ==
    ~template.present /\ (action.method = None \/ action.file = None)

ActionEnrich(action, template) ==
    [action EXCEPT !.method = SetAttributeIfMissing(@, template.method),
                   !.file = SetAttributeIfMissing(@, template.file)]

\* StageSave.enrich
SaveEnrich(save, template_save) == DictUnion(save, template_save)

\* StageLog.enrich
LogEnrich(logs, template_logs) == logs \o template_logs

\* StageAssertions.enrich
AssertionsEnrich(assertions, template_assertions) == assertions \o template_assertions

\* Stage.enrich raises when the action cannot be taken from the template.
EnrichRaises(stage, template) ==
    IF stage.action.present
    THEN ActionEnrichRaises(stage.action, template.action)
    ELSE ~template.action.present

\* Stage.enrich: the stage after the call.  The save, log and assertions
\* steps are objects, always true in `if self.save:`, so each is enriched.
Enrich(stage, template) ==
    [name |-> IF stage.name = None THEN template.name ELSE stage.name,
     foreach |-> IF stage.foreach # <<>>
                 THEN DictUnion(stage.foreach, template.foreach)
                 ELSE stage.foreach,
     action |-> IF stage.action.present
                THEN ActionEnrich(stage.action, template.action)
                ELSE template.action,
     save |-> SaveEnrich(stage.save, template.save),
     log |-> LogEnrich(stage.log, template.log),
     assertions |-> AssertionsEnrich(stage.assertions, template.assertions)]

\* ------------------------------------------------------------ Stage.execute

\* Action.execute of the variants: what the call does to the two contexts,
\* or the error it raises.  "void" does nothing, "respond" leaves a response
\* in the stage context, "fail" raises a SourceException, "crash" raises
\* another exception.
ActionExecute(action, test_context, stage_context) ==
    CASE action.kind = "respond" ->
            [err |-> "none", tc |-> test_context,
             sc |-> DictSet(stage_context, "x", IntV(1))]
      [] action.kind = "fail" ->
            [err |-> "SourceException", tc |-> test_context, sc |-> stage_context]
      [] action.kind = "crash" ->
            [err |-> "Exception", tc |-> test_context, sc |-> stage_context]
      [] OTHER ->
            [err |-> "none", tc |-> test_context, sc |-> stage_context]

\* The errors that are SourceExceptions: those of the assertions step and
\* those an action raises as such.
IsSourceException(kind) ==
    kind \in {"SourceException", "TestFail", "Unresolvable", "Malformed"}

\* key + '_index'
IndexKey(key) ==
    CASE key = "k1" -> "k1_index"
      [] key = "k2" -> "k2_index"
      [] OTHER -> "k3_index"

\* One execution of Test.execute: the stages of the test (Stage.execute pops
\* the foreach bindings off them), the stage the loop of Test.execute is at,
\* the place the execution is at in that stage (pc), the two contexts, the
\* frames of the calls of Stage.execute that are inside their for loop, the
\* calls made so far (trace) and the error raised, if any.  For the record,
\* the stages as they were loaded, and the contexts each call of
\* Stage.execute and of _execute was given and returned (calls).  default is
\* the dict that is the default value of Stage.execute's stage_context, one
\* object for every call; shared tells that sc is that very object.
NewRun(stages) ==
    [status |-> "idle", stages |-> stages, stage |-> 0, pc |-> "idle",
     tc |-> EmptyDict, sc |-> EmptyDict, frames |-> <<>>, trace |-> <<>>, err |-> <<>>,
     loaded |-> stages, calls |-> <<>>, default |-> EmptyDict, shared |-> FALSE]

Event(ev, r) == <<ev, r.stage>>

\* A call or a return, with the two contexts passed.
Call(ev, r) == [ev |-> ev, stage |-> r.stage, tc |-> r.tc, sc |-> r.sc]

\* Test.execute is called: a fresh test context; the loop starts.
RunStart(r) ==
    [r EXCEPT !.status = "running", !.stage = 1, !.pc = "next", !.tc = EmptyDict]

\* The loop of Test.execute: the next stage is executed with the default
\* stage context, or, after the last one, the test passes.
RunNext(r) ==
    IF r.stage > Len(r.stages)
    THEN [r EXCEPT !.status = "passed", !.pc = "done"]
    ELSE LET called == [r EXCEPT !.sc = r.default, !.shared = TRUE]
         IN  [called EXCEPT !.pc = "enter", !.frames = <<>>,
                            !.trace = Append(@, Event("execute", r)),
                            !.calls = Append(@, Call("execute", called))]

\* Test.execute with no handler for exceptions other than SourceException.
RunRaiseUncaught(r, kind) ==
    [r EXCEPT !.status = IF IsSourceException(kind) THEN "failed" ELSE "escaped",
              !.pc = "done", !.frames = <<>>,
              !.trace = Append(@, Event("raise", r)),
              !.err = <<[kind |-> kind,
                         tagged |-> IF IsSourceException(kind) THEN r.stage ELSE 0]>>]

\* An error that is logged and does not end the loop of Test.execute.
RunRaiseGoesOn(r, kind) ==
    [r EXCEPT !.pc = "next", !.stage = @ + 1, !.frames = <<>>,
              !.trace = Append(@, Event("raise", r)),
              !.err = <<[kind |-> kind, tagged |-> 0]>>]

\* An error leaves the stage: _execute tags a SourceException with the stage,
\* no call of Stage.execute handles it, and Test.execute returns False for a
\* SourceException as for any other Exception.
RunRaise(r, kind) ==
    [r EXCEPT !.status = "failed", !.pc = "done", !.frames = <<>>,
              !.trace = Append(@, Event("raise", r)),
              !.err = <<[kind |-> kind,
                         tagged |-> IF IsSourceException(kind) THEN r.stage ELSE 0]>>]

\* Stage.execute returns to its caller: to the for loop of the call of
\* Stage.execute it was made from, or to Test.execute.
RunReturn(r) ==
    IF r.frames = <<>>
    THEN [r EXCEPT !.pc = "next", !.stage = @ + 1,
                   !.calls = Append(@, Call("executed", r))]
    ELSE [r EXCEPT !.pc = "loop"]

\* Stage.execute is entered: no binding left, the pipeline runs with the
\* stage context given; else the last binding is popped off the stage and
\* the loop over its values starts.
RunEnter(r) ==
    LET foreach == r.stages[r.stage].foreach
        n == Len(foreach)
    IN  IF n = 0
        THEN [r EXCEPT !.pc = "action", !.trace = Append(@, Event("stage_start", r)),
                       !.calls = Append(@, Call("_execute", r))]
        ELSE [r EXCEPT !.pc = "loop",
                       !.stages[r.stage].foreach = SubSeq(foreach, 1, n - 1),
                       !.frames = Append(@, [key |-> foreach[n][1],
                                             values |-> foreach[n][2],
                                             index |-> 0,
                                             sc |-> r.sc])]

\* The for loop of Stage.execute with indexes counted from 1.
RunLoopFromOne(r) ==
    LET d == Len(r.frames)
        f == r.frames[d]
    IN  IF f.index < Len(f.values)
        THEN [r EXCEPT !.pc = "enter", !.shared = FALSE,
                       !.frames[d].index = f.index + 1,
                       !.sc = DictSet(DictSet(f.sc, f.key, f.values[f.index + 1]),
                                      IndexKey(f.key), IntV(f.index + 1))]
        ELSE RunReturn([r EXCEPT !.frames = SubSeq(r.frames, 1, d - 1)])

\* The for loop of Stage.execute: the next value is bound in a new stage
\* context and Stage.execute is called with it; after the last value the
\* call returns.
RunLoop(r) ==
    LET d == Len(r.frames)
        f == r.frames[d]
    IN  IF f.index < Len(f.values)
        THEN [r EXCEPT !.pc = "enter", !.shared = FALSE,
                       !.frames[d].index = f.index + 1,
                       !.sc = DictSet(DictSet(f.sc, f.key, f.values[f.index + 1]),
                                      IndexKey(f.key), IntV(f.index))]
        ELSE RunReturn([r EXCEPT !.frames = SubSeq(r.frames, 1, d - 1)])

\* _execute with the log step run before the save step.
RunActionThenLog(r) ==
    LET res == ActionExecute(r.stages[r.stage].action, r.tc, r.sc)
        started == [r EXCEPT !.trace = Append(@, Event("action", r))]
    IN  [started EXCEPT !.pc = "log", !.tc = res.tc, !.sc = res.sc]

\* _execute, step 1: the action.  It writes into the stage context it was
\* given: into the default dict when that is the one passed.
RunAction(r) ==
    LET res == ActionExecute(r.stages[r.stage].action, r.tc, r.sc)
        started == [r EXCEPT !.trace = Append(@, Event("action", r))]
    IN  IF res.err # "none" THEN RunRaise(started, res.err)
        ELSE [started EXCEPT !.pc = "save", !.tc = res.tc, !.sc = res.sc,
                             !.default = IF r.shared THEN res.sc ELSE @]

\* _execute, step 2: the save step.
RunSave(r) ==
    LET res == StageSaveExecute(r.tc, r.sc, r.stages[r.stage].save)
        started == [r EXCEPT !.trace = Append(@, Event("save", r)), !.tc = res.tc]
    IN  IF res.err # "none" THEN RunRaise(started, res.err)
        ELSE [started EXCEPT !.pc = "log"]

\* _execute, step 3: the log step; it changes no context.
RunLog(r) ==
    [r EXCEPT !.pc = "assertions", !.trace = Append(@, Event("log", r))]

\* _execute, step 4: the assertions step; then _execute returns.
RunAssertions(r, distinct) ==
    LET res == StageAssertionsExecute(r.stages[r.stage].assertions, r.tc, r.sc, distinct)
        started == [r EXCEPT !.trace = Append(@, Event("assertions", r))]
    IN  IF res.err # "none" THEN RunRaise(started, res.err)
        ELSE RunReturn([started EXCEPT !.calls = Append(@, Call("returned", r))])

\* The next step of a running execution.
RunStep(r, distinct) ==
    CASE r.pc = "next" -> RunNext(r)
      [] r.pc = "enter" -> RunEnter(r)
      [] r.pc = "loop" -> RunLoop(r)
      [] r.pc = "action" -> RunAction(r)
      [] r.pc = "save" -> RunSave(r)
      [] r.pc = "log" -> RunLog(r)
      [] r.pc = "assertions" -> RunAssertions(r, distinct)
      [] OTHER -> r

\* Test.execute from the call to the return.
RECURSIVE RunToEnd(_, _)
RunToEnd(r, distinct) ==
    IF r.pc = "done" THEN r ELSE RunToEnd(RunStep(r, distinct), distinct)

\* Test.execute: True when the test passed.
TestExecute(test, distinct) ==
    RunToEnd(RunStart(NewRun(test.stages)), distinct).status = "passed"

\* ------------------------------------------------- the parts a specification leaves idle

NoSave == [save |-> <<>>, before |-> EmptyDict, err |-> "none"]

SaveIdle == saveTc = EmptyDict /\ saveSc = EmptyDict /\ saveLast = NoSave /\ saveCount = 0

AssertIdle == asIn = <<>> /\ asOut = <<>>

TestIdle == run = <<>> /\ runtime = FALSE

SuiteIdle ==
    /\ tests = <<>> /\ status = <<>> /\ phase = "idle" /\ seqLists = <<>>
    /\ executed = 0 /\ success = <<>> /\ failures = <<>> /\ raised = <<>>

EnrichIdle == enStage = <<>> /\ enTemplate = <<>> /\ enPrev = <<>> /\ enCount = 0

FileIdle == fileAction = <<>>

\* ------------------------------------------------------- SpecSave: the save step

MaxSaves == 2

SavePaths == {<<"a">>, <<"a", "b">>, <<"a", "c">>, <<"a", "b", "c">>}

SaveExprs == {Expr("int", "", 1), Expr("sum", "", 1), Expr("ref", "x", 0)}

SaveEntries == SavePaths \X SaveExprs

\* The save maps of a stage: one entry, or two entries under distinct paths
\* (a dict holds a key once), in insertion order.
SaveMaps ==
    {<<e>> : e \in SaveEntries}
    \cup {m \in {<<e1, e2>> : e1 \in SaveEntries, e2 \in SaveEntries} : m[1][1] # m[2][1]}

SaveStageContexts == {EmptyDict, DictSet(EmptyDict, "x", IntV(3))}

SaveInit ==
    /\ AssertIdle
    /\ EnrichIdle
    /\ TestIdle
    /\ SuiteIdle
    /\ FileIdle
    /\ saveTc = EmptyDict
    /\ saveSc \in SaveStageContexts
    /\ saveLast = NoSave
    /\ saveCount = 0

\* The save step of one stage: StageSave.execute over the stage's save map.
\* A raise ends the test, so nothing is saved after it.
SaveStep ==
    /\ saveCount < MaxSaves
    /\ saveLast.err = "none"
    /\ \E save \in SaveMaps :
          LET r == StageSaveExecute(saveTc, saveSc, save)
          IN  /\ saveTc' = r.tc
              /\ saveLast' = [save |-> save, before |-> saveTc, err |-> r.err]
    /\ saveCount' = saveCount + 1
    /\ UNCHANGED <<saveSc, assertVars, enrichVars, testVars, suiteVars, fileVars>>

SaveNext == SaveStep

SpecSave == SaveInit /\ [][SaveNext]_vars


\* ------------------------------------------------- SpecAssert: the assertions step

MaxAssertions == 3

AssertExprs == {Expr("true", "", 0), Expr("false", "", 0), Expr("sum", "", 1),
                Expr("eq", "x", 1), Expr("ref", "y", 0), Expr("junk", "", 0)}

Repeat(x, n) == [i \in 1..n |-> x]

\* The assertion lists of a stage: every short list, and one list of passing
\* assertions longer than SmallIntMax.
AssertionLists ==
    UNION {[1..n -> AssertExprs] : n \in 0..MaxAssertions}
    \cup {Repeat(Expr("true", "", 0), SmallIntMax + 1)}

AssertTestContexts == {EmptyDict, DictSet(EmptyDict, "x", IntV(1))}

AssertStageContexts == {EmptyDict, DictSet(EmptyDict, "x", IntV(2))}

AssertInit ==
    /\ EnrichIdle
    /\ TestIdle
    /\ SuiteIdle
    /\ FileIdle
    /\ asIn \in [assertions : AssertionLists,
                 tc : AssertTestContexts,
                 sc : AssertStageContexts,
                 distinct : BOOLEAN]
    /\ asOut = <<>>
    /\ SaveIdle

\* The assertions step of one stage: StageAssertions.execute.
AssertStep ==
    /\ asOut = <<>>
    /\ asOut' = <<StageAssertionsExecute(asIn.assertions, asIn.tc, asIn.sc, asIn.distinct)>>
    /\ UNCHANGED <<asIn, saveVars, enrichVars, testVars, suiteVars, fileVars>>

AssertNext == AssertStep

SpecAssert == AssertInit /\ [][AssertNext]_vars

AssertDone == asOut # <<>>

AssertResult == asOut[1]

\* The value each assertion of the call evaluates to.
AssertValue(i) == Evaluate(asIn.tc, asIn.sc, asIn.assertions[i])

AllEvaluateToBool == \A i \in 1..Len(asIn.assertions) : AssertValue(i).t = "bool"

FalseAssertions == {i \in 1..Len(asIn.assertions) : AssertValue(i) = BoolV(FALSE)}

\* The k-th smallest member of a set of positions.
Kth(positions, k) ==
    CHOOSE i \in positions : Cardinality({j \in positions : j <= i}) = k

\* seq holds the members of list at the given positions, in list order.
HoldsPositions(seq, list, positions) ==
    /\ Len(seq) = Cardinality(positions)
    /\ \A k \in 1..Len(seq) : seq[k] = list[Kth(positions, k)]

\* C6: when no assertion fails to evaluate, all are evaluated, and the step
\* raises the assertion failure exactly when some assertion was false,
\* carrying the false assertions in list order; an empty list never raises.
C6_AssertionFailureIffFalse ==
    (AssertDone /\ AllEvaluateToBool) =>
        /\ AssertResult.evaluated = asIn.assertions
        /\ (AssertResult.err = "TestFail") = (FalseAssertions # {})
        /\ AssertResult.err \in {"TestFail", "none"}
        /\ AssertResult.err = "TestFail" =>
               HoldsPositions(AssertResult.carries, asIn.assertions, FalseAssertions)

\* The same on lists of at most SmallIntMax assertions.
AssertionFailureIffFalseShort ==
    (AssertDone /\ AllEvaluateToBool /\ Len(asIn.assertions) <= SmallIntMax) =>
        /\ AssertResult.evaluated = asIn.assertions
        /\ (AssertResult.err = "TestFail") = (FalseAssertions # {})
        /\ AssertResult.err \in {"TestFail", "none"}
        /\ AssertResult.err = "TestFail" =>
               HoldsPositions(AssertResult.carries, asIn.assertions, FalseAssertions)

\* The first assertion of the call that does not evaluate to a boolean.
FirstProblem ==
    LET bad == {i \in 1..Len(asIn.assertions) : AssertValue(i).t # "bool"}
    IN  IF bad = {} THEN 0 ELSE CHOOSE i \in bad : \A j \in bad : i <= j

\* C7: an assertion whose evaluation fails raises the Unresolvable error, one
\* that evaluates to a non-boolean raises the Malformed error; neither is
\* reported as an assertion failure or as a pass.
C7_UnresolvableAndMalformed ==
    (AssertDone /\ FirstProblem # 0) =>
        /\ AssertValue(FirstProblem).t = "error" => AssertResult.err = "Unresolvable"
        /\ AssertValue(FirstProblem).t # "error" => AssertResult.err = "Malformed"
        /\ AssertResult.carries = <<asIn.assertions[FirstProblem]>>

\* C7 witness: "1 + 1" raised Malformed, after a false assertion.
C7_MalformedRaised ==
    /\ AssertDone
    /\ asIn.assertions = <<Expr("false", "", 0), Expr("sum", "", 1)>>
    /\ AssertResult.err = "Malformed"

\* An undefined variable raised Unresolvable.
UnresolvableRaised ==
    /\ AssertDone
    /\ asIn.assertions = <<Expr("ref", "y", 0)>>
    /\ AssertResult.err = "Unresolvable"

\* C20: the first assertion in list order that fails to evaluate or is no
\* boolean stops the step: no later assertion is evaluated, and the error is
\* the Unresolvable / Malformed one even when an earlier assertion was false.
C20_FirstProblemStops ==
    (AssertDone /\ FirstProblem # 0) =>
        /\ AssertResult.evaluated = SubSeq(asIn.assertions, 1, FirstProblem)
        /\ AssertResult.err \in {"Unresolvable", "Malformed"}
        /\ AssertResult.err # "TestFail"
        /\ \A i \in FalseAssertions :
               asIn.assertions[i] \notin
                   {AssertResult.carries[k] : k \in 1..Len(AssertResult.carries)}

\* C20 witness: of [false, undefined variable, true] two were evaluated and
\* Unresolvable was raised.
C20_StoppedAfterFalse ==
    /\ AssertDone
    /\ asIn.assertions = <<Expr("false", "", 0), Expr("ref", "y", 0), Expr("true", "", 0)>>
    /\ AssertResult.err = "Unresolvable"
    /\ Len(AssertResult.evaluated) = 2

\* ------------------------------------------------- SpecEnrich: template enrichment

MaxEnrich == 2

EnrichActions == {NoAction, Action("file", "READ", None), Action("file", "WRITE", "f")}

EnrichStages ==
    [name : {None, "stage"},
     foreach : {<<>>, << <<"k1", "xs">> >>, << <<"k1", "xs">>, <<"k2", "ys">> >>},
     action : EnrichActions,
     save : {<<>>, << <<(<<"a">>), Expr("int", "", 1)>> >>},
     log : {<<>>, <<Expr("tmpl", "x", 0)>>},
     assertions : {<<>>, <<Expr("true", "", 0)>>}]

EnrichTemplates ==
    [name : {None, "template"},
     foreach : {<<>>, << <<"k1", "ts">>, <<"k3", "zs">> >>},
     action : EnrichActions,
     save : {<<>>, << <<(<<"a">>), Expr("sum", "", 1)>>, <<(<<"b">>), Expr("int", "", 1)>> >>},
     log : {<<>>, <<Expr("junk", "", 0)>>},
     assertions : {<<>>, <<Expr("eq", "x", 1)>>}]

EnrichInit ==
    /\ enStage \in EnrichStages
    /\ enTemplate \in EnrichTemplates
    /\ enPrev = enStage
    /\ enCount = 0
    /\ SaveIdle
    /\ AssertIdle
    /\ TestIdle
    /\ SuiteIdle
    /\ FileIdle

\* Stage.enrich(template) returns.
EnrichStep ==
    /\ enCount \in 0..(MaxEnrich - 1)
    /\ ~EnrichRaises(enStage, enTemplate)
    /\ enStage' = Enrich(enStage, enTemplate)
    /\ enPrev' = enStage
    /\ enCount' = enCount + 1
    /\ UNCHANGED <<enTemplate, saveVars, assertVars, testVars, suiteVars, fileVars>>

\* Stage.enrich(template) raises: no action to take from the template.
EnrichRaise ==
    /\ enCount \in 0..(MaxEnrich - 1)
    /\ EnrichRaises(enStage, enTemplate)
    /\ enCount' = -1
    /\ UNCHANGED <<enStage, enTemplate, enPrev, saveVars, assertVars, testVars, suiteVars, fileVars>>

EnrichNext == EnrichStep \/ EnrichRaise

SpecEnrich == EnrichInit /\ [][EnrichNext]_vars

OwnWins(a, b, merged) ==
    /\ Keys(merged) = Keys(a) \cup Keys(b)
    /\ Len(merged) = Cardinality(Keys(merged))
    /\ \A k \in Keys(merged) :
            ItemValue(merged, k) = IF k \in Keys(a) THEN ItemValue(a, k) ELSE ItemValue(b, k)

\* C11 as stated: after enrich(stage, template) the save map is the union of
\* both save maps, holding the stage's own expression for a path of both.
C11_SaveUnionStageWins ==
    enCount = 1 => OwnWins(enPrev.save, enTemplate.save, enStage.save)

\* C12 as stated: after enrich(stage, template) foreach is the union of both
\* sets of bindings, also for a stage with no binding of its own, holding the
\* stage's own source expression for a binding name of both.
C12_ForeachUnionStageWins ==
    enCount = 1 => OwnWins(enPrev.foreach, enTemplate.foreach, enStage.foreach)

\* ------------------------------------------------- SpecFile: FileStageAction

\* The names of the members of FileMethod.
FileMethod == {"READ", "WRITE", "DELETE"}

\* FileStageAction.__init__: FileMethod[method] raises for a name that is no
\* member, None included; the method is then left None and reported wrong.
FileStageActionInit(method, file, content) ==
    [method |-> IF method \in FileMethod THEN method ELSE None,
     file |-> file,
     content |-> content,
     missing_fields |-> {},
     wrong_fields |-> IF method \in FileMethod THEN {} ELSE {"action.method"}]

\* FileStageAction.mandatory_fields
MandatoryFields == {"method", "file"}

\* A validation that asks no content of WRITE.
ValidateSpecificAnyContent(action) == action

\* FileStageAction._validate_specific: WRITE needs a content that is not
\* empty.
ValidateSpecific(action) ==
    IF action.method = "WRITE" /\ action.content \in {None, ""}
    THEN [action EXCEPT !.missing_fields = @ \cup {"action.content"}]
    ELSE action

\* StageAction.validate: every mandatory field left None is reported
\* missing, then the variant's own validation runs.
Validate(action) ==
    LET Field(name) == IF name = "method" THEN action.method ELSE action.file
        Reported(name) == IF name = "method" THEN "action.method" ELSE "action.file"
        missing == {Reported(name) : name \in {f \in MandatoryFields : Field(f) = None}}
    IN  ValidateSpecific([action EXCEPT !.missing_fields = @ \cup missing])

\* bool(validation_report): nothing missing, nothing wrong.
ReportClean(action) == action.missing_fields = {} /\ action.wrong_fields = {}

FileMethodArgs == {None, "READ", "WRITE", "DELETE", "X", "read"}

FileArgs == {None, "a_file", "b_file"}

ContentArgs == {None, "", "some_content"}

FileInit ==
    /\ fileAction \in [pc : {"args"}, method : FileMethodArgs, file : FileArgs,
                        content : ContentArgs, action : {<<>>}]
    /\ SaveIdle
    /\ AssertIdle
    /\ EnrichIdle
    /\ TestIdle
    /\ SuiteIdle

FileIdleVars == <<saveVars, assertVars, enrichVars, testVars, suiteVars>>

\* FileStageAction(method, file, content) is constructed.
FileConstruct ==
    /\ fileAction.pc = "args"
    /\ fileAction' = [fileAction EXCEPT
                         !.pc = "built",
                         !.action = FileStageActionInit(fileAction.method, fileAction.file,
                                                        fileAction.content)]
    /\ UNCHANGED FileIdleVars

\* The action is validated.
FileValidate ==
    /\ fileAction.pc = "built"
    /\ fileAction' = [fileAction EXCEPT !.pc = "validated", !.action = Validate(@)]
    /\ UNCHANGED FileIdleVars

FileNext == FileConstruct \/ FileValidate

SpecFile == FileInit /\ [][FileNext]_vars

\* C16: the report of a validated file action is clean exactly when method
\* names READ, WRITE or DELETE, file is set and, for WRITE, content is not
\* empty; else an absent method or file is a missing field action.method /
\* action.file, a method name that is no member a wrong field action.method,
\* WRITE without content a missing field action.content.
C16_FileValidationReport ==
    (fileAction # <<>> /\ fileAction.pc = "validated") =>
        LET a == fileAction.action
            written == fileAction.method = "WRITE"
            empty == fileAction.content \in {None, ""}
        IN  /\ ReportClean(a) <=>
                   /\ fileAction.method \in FileMethod
                   /\ fileAction.file # None
                   /\ written => ~empty
            /\ fileAction.method = None => "action.method" \in a.missing_fields
            /\ fileAction.file = None <=> "action.file" \in a.missing_fields
            /\ fileAction.method \notin FileMethod \cup {None} =>
                   "action.method" \in a.wrong_fields
            /\ fileAction.method \in FileMethod => "action.method" \notin a.wrong_fields
            /\ (written /\ empty) <=> "action.content" \in a.missing_fields

\* C16 witness: WRITE to a file with no content was validated and only the
\* content is reported.
C16_WriteMissingContent ==
    /\ fileAction # <<>>
    /\ fileAction.pc = "validated"
    /\ fileAction.method = "WRITE" /\ fileAction.file = "a_file"
    /\ fileAction.content = None
    /\ fileAction.action.missing_fields = {"action.content"}
    /\ fileAction.action.wrong_fields = {}

\* ------------------------------------------------- SpecTest: Test.execute

MaxStages == 3

StageDef(foreach, kind, save, log, assertions) ==
    [name |-> "stage", foreach |-> foreach, action |-> Action(kind, None, None),
     save |-> save, log |-> log, assertions |-> assertions]

\* A stage that passes: its action leaves x = 1 in the stage context.
StPass ==
    StageDef(<<>>, "respond",
             << <<(<<"a", "b">>), Expr("ref", "x", 0)>> >>,
             <<Expr("tmpl", "x", 0)>>,
             <<Expr("eq", "x", 1), Expr("true", "", 0)>>)

\* A stage with a false assertion.
StFalse == StageDef(<<>>, "void", <<>>, <<>>, <<Expr("true", "", 0), Expr("false", "", 0)>>)

\* A stage whose action raises a SourceException.
StFail == StageDef(<<>>, "fail", <<>>, <<>>, <<Expr("true", "", 0)>>)

\* A stage whose action raises another exception.
StCrash == StageDef(<<>>, "crash", <<>>, <<>>, <<>>)

\* A stage that saves a.b after a number was saved as a.
StSaveCrash ==
    StageDef(<<>>, "void",
             << <<(<<"a">>), Expr("int", "", 1)>>, <<(<<"a", "b">>), Expr("int", "", 1)>> >>,
             <<Expr("junk", "", 0)>>, <<Expr("true", "", 0)>>)

\* A stage with an assertion that is no boolean.
StMalformed == StageDef(<<>>, "void", <<>>, <<>>, <<Expr("sum", "", 1)>>)

\* A stage run for each of two values; the second fails its assertion.
StEach ==
    StageDef(<< <<"k1", <<IntV(1), IntV(2)>> >> >>, "void",
             << <<(<<"c">>), Expr("ref", "k1", 0)>> >>, <<>>, <<Expr("eq", "k1", 1)>>)

\* A stage run for each of three values, passing; each run saves its value.
StEachPass ==
    StageDef(<< <<"k1", <<IntV(10), IntV(20), IntV(30)>> >> >>, "void",
             << <<(<<"c">>), Expr("ref", "k1", 0)>> >>, <<>>, <<Expr("true", "", 0)>>)

\* A stage with two bindings, k1 listed before k2.
StPairs ==
    StageDef(<< <<"k1", <<IntV(1), IntV(2)>> >>, <<"k2", <<IntV(3), IntV(4)>> >> >>, "void",
             << <<(<<"c">>), Expr("ref", "k2", 0)>> >>, <<>>, <<Expr("true", "", 0)>>)

ExecStages ==
    {StPass, StFalse, StFail, StCrash, StSaveCrash, StMalformed, StEach, StEachPass, StPairs}

TestStages == UNION {[1..n -> ExecStages] : n \in 0..MaxStages}

TestInit ==
    /\ run \in {NewRun(stages) : stages \in TestStages}
    /\ runtime \in BOOLEAN
    /\ SaveIdle
    /\ AssertIdle
    /\ EnrichIdle
    /\ SuiteIdle
    /\ FileIdle

TestIdleVars == <<saveVars, assertVars, enrichVars, runtime, suiteVars, fileVars>>

\* Test.execute is called.
TestStart ==
    /\ run.pc = "idle"
    /\ run' = RunStart(run)
    /\ UNCHANGED TestIdleVars

\* The loop of Test.execute calls Stage.execute on the next stage.
TestCallStage ==
    /\ run.pc = "next" /\ run.stage <= Len(run.stages)
    /\ run' = RunNext(run)
    /\ UNCHANGED TestIdleVars

\* The loop of Test.execute is over: Test.execute returns True.
TestFinish ==
    /\ run.pc = "next" /\ run.stage > Len(run.stages)
    /\ run' = RunNext(run)
    /\ UNCHANGED TestIdleVars

\* Stage.execute is entered.
StageEnter ==
    /\ run.pc = "enter"
    /\ run' = RunEnter(run)
    /\ UNCHANGED TestIdleVars

\* The for loop of Stage.execute.
StageLoop ==
    /\ run.pc = "loop"
    /\ run' = RunLoop(run)
    /\ UNCHANGED TestIdleVars

\* The four steps of Stage._execute.
StageAction ==
    /\ run.pc = "action"
    /\ run' = RunAction(run)
    /\ UNCHANGED TestIdleVars

StageSaveStep ==
    /\ run.pc = "save"
    /\ run' = RunSave(run)
    /\ UNCHANGED TestIdleVars

StageLogStep ==
    /\ run.pc = "log"
    /\ run' = RunLog(run)
    /\ UNCHANGED TestIdleVars

StageAssertionsStep ==
    /\ run.pc = "assertions"
    /\ run' = RunAssertions(run, runtime)
    /\ UNCHANGED TestIdleVars

TestNext ==
    \/ TestStart
    \/ TestCallStage
    \/ TestFinish
    \/ StageEnter
    \/ StageLoop
    \/ StageAction
    \/ StageSaveStep
    \/ StageLogStep
    \/ StageAssertionsStep

SpecTest == TestInit /\ [][TestNext]_vars

\* ------------------------------------------------- Spec: run(), the suite scheduler

MaxTests == 3

PoolSize == 2

\* The stage lists of the tests of a suite: one that passes, one that fails
\* at its second stage.
SuiteShapes == {<<StPass>>, <<StPass, StFalse, StPass>>}

\* A test named after its place in the suite.
TestDef(i, parallel, stages) == [name |-> i, parallel |-> parallel, stages |-> stages]

SuiteChoices == [parallel : BOOLEAN, stages : SuiteShapes]

\* The suites loaded: every short suite, and one of more than SmallIntMax
\* sequential tests that pass (they have no stage).
Suites ==
    {[i \in 1..Len(c) |-> TestDef(i, c[i].parallel, c[i].stages)] :
        c \in UNION {[1..n -> SuiteChoices] : n \in 0..MaxTests}}
    \cup {[i \in 1..(SmallIntMax + 1) |-> TestDef(i, FALSE, <<>>)]}

SuiteInit ==
    /\ tests \in Suites
    /\ status = [i \in 1..Len(tests) |-> "idle"]
    /\ phase = "parallel"
    /\ seqLists = [success_tests |-> <<>>, fail_tests |-> <<>>]
    /\ executed = 0 /\ success = <<>> /\ failures = <<>> /\ raised = <<>>
    /\ runtime \in BOOLEAN
    /\ run = <<>>
    /\ SaveIdle
    /\ AssertIdle
    /\ EnrichIdle
    /\ FileIdle

SuiteIdleVars == <<saveVars, assertVars, enrichVars, fileVars, run, runtime, tests>>

Tests == 1..Len(tests)

ParallelTests == {i \in Tests : tests[i].parallel}

SequentialTests == {i \in Tests : ~tests[i].parallel}

Finished(i) == status[i] \in {"passed", "failed"}

\* The outcome of test_execution / test.execute() on a test.
Outcome(test) == IF TestExecute(test, runtime) THEN "passed" ELSE "failed"

\* The names of the tests with a given status, in declaration order.
NamesWith(group, st) ==
    LET Has(test) == test.name \in group /\ status[test.name] = st
        chosen == SelectSeq(tests, Has)
    IN  [i \in 1..Len(chosen) |-> chosen[i].name]

\* list.extend(more) with the new names put first.
ExtendFront(list, more) == more \o list

\* list.extend(more)
Extend(list, more) == list \o more

\* A worker of the pool takes a parallel test.
PoolStartTest(i) ==
    /\ phase = "parallel"
    /\ i \in ParallelTests /\ status[i] = "idle"
    /\ Cardinality({j \in Tests : status[j] = "running"}) < PoolSize
    /\ status' = [status EXCEPT ![i] = "running"]
    /\ UNCHANGED <<phase, seqLists, executed, success, failures, raised, SuiteIdleVars>>

\* A pool that gives up the tests not yet started when a test fails.
PoolFinishTestCancels(i) ==
    /\ phase = "parallel"
    /\ i \in ParallelTests /\ status[i] = "running"
    /\ status' = IF Outcome(tests[i]) = "passed"
                 THEN [status EXCEPT ![i] = "passed"]
                 ELSE [j \in Tests |->
                          IF j = i \/ (j \in ParallelTests /\ status[j] = "idle")
                          THEN "failed" ELSE status[j]]
    /\ UNCHANGED <<phase, seqLists, executed, success, failures, raised, SuiteIdleVars>>

\* The worker's test_execution returns (test.execute(), test.name).
PoolFinishTest(i) ==
    /\ phase = "parallel"
    /\ i \in ParallelTests /\ status[i] = "running"
    /\ status' = [status EXCEPT ![i] = Outcome(tests[i])]
    /\ UNCHANGED <<phase, seqLists, executed, success, failures, raised, SuiteIdleVars>>

\* pool.map returns the results in the order of the tests; run() extends its
\* lists with the parallel executor's and counts them.
ParallelCollect ==
    /\ phase = "parallel"
    /\ \A i \in ParallelTests : Finished(i)
    /\ LET success_tests == NamesWith(ParallelTests, "passed")
           fail_tests == NamesWith(ParallelTests, "failed")
       IN  /\ success' = Extend(success, success_tests)
           /\ failures' = Extend(failures, fail_tests)
           /\ executed' = executed + Len(success_tests) + Len(fail_tests)
    /\ phase' = "sequential"
    /\ UNCHANGED <<status, seqLists, raised, SuiteIdleVars>>

\* sequential_tests: the tests that are not parallel, in declaration order.
IsSequential(test) == ~test.parallel

sequential_tests == SelectSeq(tests, IsSequential)

\* The place of the sequential executor's for loop in sequential_tests: after
\* the tests whose names it has put in success_tests or fail_tests.
SeqAt == Len(seqLists.success_tests) + Len(seqLists.fail_tests) + 1

\* A sequential executor that does not wait for the pool.
SeqStartTestEarly ==
    /\ phase \in {"parallel", "sequential"}
    /\ LET list == sequential_tests
       IN  /\ SeqAt <= Len(list)
           /\ status[list[SeqAt].name] = "idle"
           /\ status' = [status EXCEPT ![list[SeqAt].name] = "running"]
    /\ UNCHANGED <<phase, seqLists, executed, success, failures, raised, SuiteIdleVars>>

\* execute_sequential_tests calls test.execute() on the next test.
SeqStartTest ==
    /\ phase = "sequential"
    /\ LET list == sequential_tests
       IN  /\ SeqAt <= Len(list)
           /\ status[list[SeqAt].name] = "idle"
           /\ status' = [status EXCEPT ![list[SeqAt].name] = "running"]
    /\ UNCHANGED <<phase, seqLists, executed, success, failures, raised, SuiteIdleVars>>

\* test.execute() returns; the name goes to success_tests or fail_tests.
SeqFinishTest ==
    /\ phase = "sequential"
    /\ LET list == sequential_tests
       IN  /\ SeqAt <= Len(list)
           /\ status[list[SeqAt].name] = "running"
           /\ LET test == list[SeqAt]
                  outcome == Outcome(test)
              IN  /\ status' = [status EXCEPT ![test.name] = outcome]
                  /\ seqLists' = IF outcome = "passed"
                                 THEN [seqLists EXCEPT !.success_tests = Append(@, test.name)]
                                 ELSE [seqLists EXCEPT !.fail_tests = Append(@, test.name)]
    /\ UNCHANGED <<phase, executed, success, failures, raised, SuiteIdleVars>>

\* The sequential executor returns; run() extends its lists and counts.
SequentialCollect ==
    /\ phase = "sequential"
    /\ \A i \in SequentialTests : Finished(i)
    /\ success' = Extend(success, seqLists.success_tests)
    /\ failures' = Extend(failures, seqLists.fail_tests)
    /\ executed' = executed + Len(seqLists.success_tests) + Len(seqLists.fail_tests)
    /\ phase' = "tally"
    /\ UNCHANGED <<status, seqLists, raised, SuiteIdleVars>>

\* `if len(success) is not executed: raise TestSuiteResultException(failures)`
SuiteRaise ==
    /\ phase = "tally"
    /\ IntIsNot(Len(success), executed, runtime)
    /\ raised' = <<failures>>
    /\ phase' = "done"
    /\ UNCHANGED <<status, seqLists, executed, success, failures, SuiteIdleVars>>

\* run() returns without raising.
SuiteReturn ==
    /\ phase = "tally"
    /\ ~IntIsNot(Len(success), executed, runtime)
    /\ phase' = "done"
    /\ UNCHANGED <<status, seqLists, executed, success, failures, raised, SuiteIdleVars>>

Next ==
    \/ \E i \in Tests : PoolStartTest(i)
    \/ \E i \in Tests : PoolFinishTest(i)
    \/ ParallelCollect
    \/ SeqStartTest
    \/ SeqFinishTest
    \/ SequentialCollect
    \/ SuiteRaise
    \/ SuiteReturn

Spec == SuiteInit /\ [][Next]_vars

\* ------------------------------------------------- claims on run()

FailedTests == {i \in Tests : status[i] = "failed"}

\* C2: the suite-level error is raised at the end of a run exactly when some
\* executed test failed, and then carries the names of the failing tests,
\* each once; when every test passed no error is raised.
C2_SuiteErrorIffFailure ==
    phase = "done" =>
        /\ (raised # <<>>) <=> (FailedTests # {})
        /\ raised # <<>> =>
               /\ {raised[1][k] : k \in 1..Len(raised[1])} = FailedTests
               /\ Len(raised[1]) = Cardinality(FailedTests)

\* The same for suites of at most SmallIntMax tests.
SuiteErrorIffFailureShort ==
    (phase = "done" /\ Len(tests) <= SmallIntMax) =>
        /\ (raised # <<>>) <=> (FailedTests # {})
        /\ raised # <<>> =>
               /\ {raised[1][k] : k \in 1..Len(raised[1])} = FailedTests
               /\ Len(raised[1]) = Cardinality(FailedTests)

\* A suite of two parallel tests, one passing (pp) and one failing (pf), and
\* one passing sequential test (sq), has been run.
SuiteOfThreeDone(pp, pf, sq) ==
    /\ phase = "done"
    /\ Len(tests) = 3
    /\ {pp, pf, sq} = 1..3
    /\ tests[pp].parallel /\ status[pp] = "passed"
    /\ tests[pf].parallel /\ status[pf] = "failed"
    /\ ~tests[sq].parallel /\ status[sq] = "passed"

\* C3 as stated: such a suite reports executed = 3, success = [seq,
\* parallelPass], failures = [parallelFail] and raises the suite error.
C3_SequentialNameFirst ==
    \A pp, pf, sq \in 1..3 :
        SuiteOfThreeDone(pp, pf, sq) =>
            /\ executed = 3
            /\ success = <<sq, pp>>
            /\ failures = <<pf>>
            /\ raised = <<(<<pf>>)>>

\* C3 amended: it reports executed = 3, success = [parallelPass, seq] (the
\* parallel test's name first), failures = [parallelFail] and raises.
C3_ParallelNameFirst ==
    \A pp, pf, sq \in 1..3 :
        SuiteOfThreeDone(pp, pf, sq) =>
            /\ executed = 3
            /\ success = <<pp, sq>>
            /\ failures = <<pf>>
            /\ raised = <<(<<pf>>)>>

\* C3 witness: such a suite, declared sequential test first, has been run.
C3_SuiteOfThreeRun == SuiteOfThreeDone(3, 2, 1)

\* C14: no sequential test starts before every parallel test has finished;
\* the sequential tests run one at a time, in declaration order; a sequential
\* test never runs while any other test runs.
C14_SequentialAfterParallel ==
    LET list == sequential_tests
    IN  /\ \A i \in SequentialTests :
               status[i] # "idle" => \A j \in ParallelTests : Finished(j)
        /\ \A i \in SequentialTests :
               status[i] = "running" => \A j \in Tests \ {i} : status[j] # "running"
        /\ \A k \in 2..Len(list) :
               status[list[k].name] # "idle" => Finished(list[k - 1].name)

\* C14 witness: the second sequential test runs after a parallel test and
\* the first sequential test finished.
C14_SecondSequentialRuns ==
    /\ Len(tests) = 3
    /\ tests[2].parallel /\ ~tests[1].parallel /\ ~tests[3].parallel
    /\ status[2] = "failed" /\ status[1] = "passed" /\ status[3] = "running"

\* The number of times a name is in a list.
Count(list, name) == Cardinality({k \in 1..Len(list) : list[k] = name})

\* C15: whatever the outcomes and the interleaving, each loaded test is
\* started once and finished once, a test that fails stops no other test,
\* and at the end each name is once in success (the test passed) or once in
\* failures (it failed), executed being the number of loaded tests.
C15_EveryTestOnce ==
    /\ [](phase \in {"tally", "done"} =>
             /\ executed = Len(tests)
             /\ Len(success) + Len(failures) = Len(tests)
             /\ \A i \in Tests :
                    /\ Finished(i)
                    /\ Count(success, i) = (IF status[i] = "passed" THEN 1 ELSE 0)
                    /\ Count(failures, i) = (IF status[i] = "failed" THEN 1 ELSE 0))
    /\ [][\A i \in Tests :
             status'[i] # status[i] =>
                 \/ status[i] = "idle" /\ status'[i] = "running"
                 \/ status[i] = "running" /\ status'[i] \in {"passed", "failed"}]_vars

\* C15 witness: a parallel test failed, and the other parallel test and the
\* sequential test ran all the same.
C15_AllRanDespiteFailure ==
    /\ phase = "done"
    /\ Len(tests) = 3
    /\ tests[1].parallel /\ status[1] = "failed"
    /\ tests[2].parallel /\ status[2] = "passed"
    /\ ~tests[3].parallel /\ status[3] = "failed"
    /\ executed = 3 /\ success = <<2>> /\ failures = <<1, 3>>

\* ------------------------------------------------- claims on Test.execute


IsExecute(e) == e[1] = "execute"

\* The stages Test.execute called Stage.execute on, in the order of the calls.
ExecutedStages ==
    LET calls == SelectSeq(run.trace, IsExecute)
    IN  [i \in 1..Len(calls) |-> calls[i][2]]

Raised == \E i \in 1..Len(run.trace) : run.trace[i][1] = "raise"

\* C1: once a stage raises, nothing of the test runs after it (no later
\* stage is started, no action invoked) and the test is reported failed; the
\* stages up to the failing one were each executed once, in list order.
C1_FailFast ==
    run # <<>> =>
    /\ ExecutedStages = [i \in 1..Len(ExecutedStages) |-> i]
    /\ \A i \in 1..Len(run.trace) :
          run.trace[i][1] = "raise" =>
              /\ i = Len(run.trace)
              /\ run.status = "failed"
              /\ run.trace[i][2] = Len(ExecutedStages)
              /\ \A j \in 1..i : run.trace[j][2] <= run.trace[i][2]

\* C1 witness: of the stages [passes, assertion fails, never runs] the first
\* two ran and the test failed.
C1_ThirdStageNeverRan ==
    /\ run # <<>>
    /\ run.pc = "done"
    /\ Len(run.stages) = 3
    /\ run.status = "failed"
    /\ run.err[1].kind = "TestFail"
    /\ ExecutedStages = <<1, 2>>
    /\ <<"action", 1>> \in {run.trace[i] : i \in 1..Len(run.trace)}

\* C4: no error of a stage leaves Test.execute: it returns False whatever the
\* kind of the error, and True exactly when every stage completed.
C4_NoErrorEscapes ==
    (run # <<>> /\ run.pc = "done") =>
        /\ run.status \in {"passed", "failed"}
        /\ run.status = "failed" <=> Raised
        /\ run.status = "passed" <=>
               (~Raised /\ ExecutedStages = [i \in 1..Len(run.stages) |-> i])

\* C4 witness: an exception that is no SourceException ended a test as failed.
C4_OtherExceptionCaught ==
    /\ run # <<>>
    /\ run.pc = "done"
    /\ run.status = "failed"
    /\ run.err[1].kind = "TypeError"

PipelineStep(ev) == ev \in {"action", "save", "log", "assertions"}

\* The event that must come just before a step of the pipeline or a raise.
ComesAfter(ev, before) ==
    CASE ev = "action" -> before = "stage_start"
      [] ev = "save" -> before = "action"
      [] ev = "log" -> before = "save"
      [] ev = "assertions" -> before = "log"
      [] ev = "raise" -> PipelineStep(before)
      [] OTHER -> TRUE

\* C5: in one invocation of the pipeline the steps start in the order action,
\* save, log, assertions, each at most once and only after the step before it
\* returned; an error in a step lets no further step start.
C5_PipelineOrder ==
    run # <<>> =>
        \A i \in 1..Len(run.trace) :
            /\ (PipelineStep(run.trace[i][1]) \/ run.trace[i][1] = "raise") =>
                   /\ i > 1
                   /\ ComesAfter(run.trace[i][1], run.trace[i - 1][1])
                   /\ run.trace[i][2] = run.trace[i - 1][2]
            /\ run.trace[i][1] = "raise" => i = Len(run.trace)
            /\ (run.trace[i][1] = "stage_start" /\ i < Len(run.trace)) =>
                   run.trace[i + 1][1] = "action"

\* C5 witness: the save step raised, so neither log nor assertions started.
C5_SaveRaisedLogSkipped ==
    /\ run # <<>>
    /\ run.pc = "done"
    /\ Len(run.trace) >= 4
    /\ run.trace[Len(run.trace)][1] = "raise"
    /\ run.trace[Len(run.trace) - 1][1] = "save"
    /\ \E i \in 1..Len(run.trace) : run.trace[i] = <<"assertions", 1>>

\* C21 as stated: every error that leaves a stage's pipeline, whichever step
\* raised it and whatever its kind, carries the stage that raised it when it
\* reaches Test.execute.
C21_EveryErrorTagged ==
    (run # <<>> /\ run.err # <<>>) => run.err[1].tagged = Len(ExecutedStages)

\* The same for the errors that are SourceExceptions.
SourceErrorsTagged ==
    (run # <<>> /\ run.err # <<>> /\ IsSourceException(run.err[1].kind)) =>
        run.err[1].tagged = Len(ExecutedStages)

\* An error of another kind reaches Test.execute with no stage.
OtherErrorsUntagged ==
    (run # <<>> /\ run.err # <<>> /\ ~IsSourceException(run.err[1].kind)) =>
        run.err[1].tagged = 0

\* ------------------------------------------------------- claims on foreach

\* The calls and returns of one kind recorded for a stage of the test.
CallsOf(s, evs) ==
    LET Is(c) == c.stage = s /\ c.ev \in evs
    IN  SelectSeq(run.calls, Is)

\* The stage context of an iteration: the parent's plus the value bound and
\* its index.
Bound(parent, key, values, i) ==
    DictSet(DictSet(parent, key, values[i]), IndexKey(key), IntV(i - 1))

\* C13: a stage with one foreach binding x over n values runs its pipeline
\* n times, one run after the other, run i (from 0) with the parent stage
\* context plus {x: value i, x_index: i} and from the test context run i-1
\* returned; the stage returns the test context of the last run.  A run that
\* raises is the last one.
C13_ForeachIterations ==
    run # <<>> =>
        \A s \in 1..Len(run.loaded) :
            (Len(run.loaded[s].foreach) = 1 /\ CallsOf(s, {"execute"}) # <<>>) =>
                LET x == run.loaded[s].foreach[1][1]
                    values == run.loaded[s].foreach[1][2]
                    start == CallsOf(s, {"execute"})[1]
                    started == CallsOf(s, {"_execute"})
                    returned == CallsOf(s, {"returned"})
                    both == CallsOf(s, {"_execute", "returned"})
                    done == CallsOf(s, {"executed"})
                IN  /\ Len(started) <= Len(values)
                    /\ \A j \in 1..Len(both) :
                           both[j].ev = IF j % 2 = 1 THEN "_execute" ELSE "returned"
                    /\ \A i \in 1..Len(started) :
                           /\ started[i].sc = Bound(start.sc, x, values, i)
                           /\ started[i].tc = IF i = 1 THEN start.tc ELSE returned[i - 1].tc
                    /\ done # <<>> =>
                           /\ Len(started) = Len(values)
                           /\ Len(returned) = Len(values)
                           /\ done[1].tc = IF values = <<>> THEN start.tc
                                           ELSE returned[Len(values)].tc

\* C13 witness: the stage over [10, 20, 30] ran three times, the third run
\* with {k1: 30, k1_index: 2} and the value the second run saved.
C13_ThreeIterations ==
    /\ run # <<>>
    /\ run.pc = "done"
    /\ \E s \in 1..Len(run.loaded) :
           /\ run.loaded[s] = StEachPass
           /\ Len(CallsOf(s, {"_execute"})) = 3
           /\ CallsOf(s, {"_execute"})[3].sc
                  = DictSet(DictSet(CallsOf(s, {"execute"})[1].sc, "k1", IntV(30)),
                            "k1_index", IntV(2))
           /\ DictGet(CallsOf(s, {"_execute"})[3].tc, "c", IntV(0)) = IntV(20)
           /\ CallsOf(s, {"executed"}) # <<>>

\* C17 as stated: a stage with the bindings k1 (n values) then k2 (m values)
\* runs its pipeline n*m times, k1 the outer loop and k2 the inner one, each
\* run with both bindings and both indexes.
C17_PairsInListedOrder ==
    run # <<>> =>
        \A s \in 1..Len(run.loaded) :
            (Len(run.loaded[s].foreach) = 2 /\ CallsOf(s, {"executed"}) # <<>>) =>
                LET k1 == run.loaded[s].foreach[1][1]
                    v1 == run.loaded[s].foreach[1][2]
                    k2 == run.loaded[s].foreach[2][1]
                    v2 == run.loaded[s].foreach[2][2]
                    start == CallsOf(s, {"execute"})[1]
                    started == CallsOf(s, {"_execute"})
                IN  /\ Len(started) = Len(v1) * Len(v2)
                    /\ \A i \in 1..Len(v1), j \in 1..Len(v2) :
                           started[(i - 1) * Len(v2) + j].sc
                               = Bound(Bound(start.sc, k1, v1, i), k2, v2, j)

\* What Stage.execute does with two bindings: the last one listed is the
\* outer loop, and its first value alone is paired with the values of the
\* other; every later value of it runs the pipeline once, without k1.
PairsAsExecuted ==
    run # <<>> =>
        \A s \in 1..Len(run.loaded) :
            (Len(run.loaded[s].foreach) = 2 /\ CallsOf(s, {"executed"}) # <<>>) =>
                LET k1 == run.loaded[s].foreach[1][1]
                    v1 == run.loaded[s].foreach[1][2]
                    k2 == run.loaded[s].foreach[2][1]
                    v2 == run.loaded[s].foreach[2][2]
                    start == CallsOf(s, {"execute"})[1]
                    started == CallsOf(s, {"_execute"})
                IN  /\ Len(started) = Len(v1) + Len(v2) - 1
                    /\ \A i \in 1..Len(v1) :
                           started[i].sc = Bound(Bound(start.sc, k2, v2, 1), k1, v1, i)
                    /\ \A j \in 2..Len(v2) :
                           started[Len(v1) + j - 1].sc = Bound(start.sc, k2, v2, j)

\* Stage.execute was called on the stage by Test.execute and has returned or
\* raised.
ExecuteOver(s) ==
    /\ CallsOf(s, {"execute"}) # <<>>
    /\ CallsOf(s, {"executed"}) # <<>> \/ run.pc = "done"

\* C18 as stated: once Stage.execute has returned or raised, the stage's
\* foreach bindings, save entries, log entries and assertions are those it
\* had before the call.
C18_ExecuteKeepsDefinition ==
    run # <<>> =>
        \A s \in 1..Len(run.loaded) :
            ExecuteOver(s) =>
                /\ run.stages[s].foreach = run.loaded[s].foreach
                /\ run.stages[s].save = run.loaded[s].save
                /\ run.stages[s].log = run.loaded[s].log
                /\ run.stages[s].assertions = run.loaded[s].assertions

\* What Stage.execute leaves of the definition: everything but the foreach
\* bindings, of which none is left once a pipeline run was reached.
ExecuteKeepsAllButForeach ==
    run # <<>> =>
        \A s \in 1..Len(run.loaded) :
            ExecuteOver(s) =>
                /\ run.stages[s].save = run.loaded[s].save
                /\ run.stages[s].log = run.loaded[s].log
                /\ run.stages[s].assertions = run.loaded[s].assertions
                /\ run.stages[s].action = run.loaded[s].action
                /\ CallsOf(s, {"_execute"}) # <<>> => run.stages[s].foreach = <<>>

\* ------------------------------------------------ claims on the stage context

\* C19 as stated: no entry written into a stage context during one
\* invocation is in the stage context a later stage starts with; Test.execute
\* starts every stage with an empty stage context.
C19_StageContextFresh ==
    run # <<>> =>
        \A i \in 1..Len(run.calls) :
            run.calls[i].ev = "execute" => run.calls[i].sc = EmptyDict

\* The same for the first stage of a test run in a new process.
FirstStageContextFresh ==
    run # <<>> =>
        \A i \in 1..Len(run.calls) :
            (run.calls[i].ev = "execute" /\ run.calls[i].stage = 1) =>
                run.calls[i].sc = EmptyDict

\* ------------------------------------------------------- claims on the save step

\* The value at a dotted path of a context, or an error value when the path
\* does not lead to a value.
RECURSIVE PathGet(_, _)
PathGet(value, path) ==
    IF Len(path) = 0 THEN value
    ELSE IF IsDict(value) /\ Head(path) \in DOMAIN value.v
         THEN PathGet(value.v[Head(path)], Tail(path))
         ELSE ErrorV("missing")

IsPrefix(p, q) == Len(p) <= Len(q) /\ SubSeq(q, 1, Len(p)) = p

\* Two paths that cannot both hold a leaf: one runs through the other.
Conflicts(p, q) == IsPrefix(p, q) \/ IsPrefix(q, p)

\* Every path a save can create or run through.
KnownPaths == UNION {{SubSeq(p, 1, n) : n \in 1..Len(p)} : p \in SavePaths}

LeafPaths(test_context) ==
    {p \in KnownPaths : PathGet(DictV(test_context), p).t \notin {"dict", "error"}}

\* The entries of a save map whose path no later entry of the map runs through.
StandingEntries(save) ==
    {i \in 1..Len(save) : \A j \in (i + 1)..Len(save) : ~Conflicts(save[i][1], save[j][1])}

SaveMerged(before, stage_context, save, after) ==
    /\ \A i \in StandingEntries(save) :
          PathGet(DictV(after), save[i][1]) = SavingValue(before, stage_context, save[i][2])
    /\ \A q \in LeafPaths(before) :
          (\A i \in 1..Len(save) : ~Conflicts(save[i][1], q))
             => PathGet(DictV(after), q) = PathGet(DictV(before), q)

\* C8: the save step never raises: every save step that ran returned
\* normally, whatever the entries and the contexts.
C8_SaveNeverRaises == saveCount > 0 => saveLast.err = "none"

\* C9: after any sequence of saves the saved path holds the new value and
\* every other leaf that existed before still holds its old value.
C9_SaveMerges ==
    saveCount > 0 =>
        /\ saveLast.err = "none"
        /\ SaveMerged(saveLast.before, saveSc, saveLast.save, saveTc)

\* What the merge does whenever the save step returns normally.
SaveMergesWhenReturned ==
    (saveCount > 0 /\ saveLast.err = "none") =>
        SaveMerged(saveLast.before, saveSc, saveLast.save, saveTc)

\* The spec's example: a.b = 1 then a.c = 2 on an empty context.
SaveExampleReached ==
    /\ saveLast.before = EmptyDict
    /\ saveLast.save = << <<(<<"a", "b">>), Expr("int", "", 1)>>,
                          <<(<<"a", "c">>), Expr("sum", "", 1)>> >>
    /\ saveTc = DictSet(EmptyDict, "a",
                    DictV(DictSet(DictSet(EmptyDict, "b", IntV(1)), "c", IntV(2))))

====
